---- MODULE Spec2Model ----
(***************************************************************************)
(* SegmentedCache (src/cache.py) with its eviction policies                *)
(* (src/eviction_policies.py, LFUEvictionPolicy of src/demo.py) and its     *)
(* CacheMetrics (src/cache_metrics.py), as a state machine.                 *)
(*                                                                         *)
(* Spec: one action per public call of the cache; a call runs from its      *)
(* first to its last statement (or to the statement that raises) in one     *)
(* step, so the states are those between calls of one thread.  A call that  *)
(* reads the clock twice may see it advance between the two reads.          *)
(* SpecThreads, FairThreads: the calls of several threads, a step per       *)
(* statement that touches the locks or the state the threads share.         *)
(* SpecPolicy: one eviction policy object used without a cache.             *)
(*                                                                         *)
(* Variables marked "history" record what the calls did; no operator of     *)
(* the cache reads them.                                                    *)
(***************************************************************************)
EXTENDS Integers, Sequences, FiniteSets, TLC

\* ------------------------------------------------------------------ bounds
MaxKey == 3          \* keys are the ints 1..MaxKey
MaxTtl == 1          \* ttl arguments are None or 1..MaxTtl
MaxTime == 1         \* the clock time() runs over 0..MaxTime
MaxCapacity == 2     \* capacity_per_segment is 0..MaxCapacity
MaxSegments == 2     \* num_segments stays within 1..MaxSegments
MaxCalls == 4        \* a run makes MaxCalls calls, or the calls of Script
MaxWorkers == 2      \* threads that each make one call of put, get, remove or get_metrics
MaxResizers == 2     \* threads that each make one call of resize_segments
MaxPolicyCalls == 6  \* calls made on a policy object that is used without a cache

Keys == 1..MaxKey
Values == {1, 2}                               \* the cache never looks into a value
None == <<>>                                   \* Python's None
Some(x) == <<x>>                               \* a value that is not None
Ttls == {None} \cup {Some(t) : t \in 1..MaxTtl}
PolicyClasses == {"FIFO", "LRU", "LIFO", "LFU"}
Workers == 1..MaxWorkers
Resizers == (MaxWorkers + 1)..(MaxWorkers + MaxResizers)
Threads == Workers \cup Resizers

VARIABLES
    capacity_per_segment,   \* SegmentedCache.capacity_per_segment
    eviction_policy_class,  \* SegmentedCache.eviction_policy_class
    segments,               \* SegmentedCache.segments: sequence of dicts key -> CacheItem
    eviction_policies,      \* SegmentedCache.eviction_policies: one policy object per segment
    num_segments,           \* SegmentedCache.num_segments
    metrics,                \* SegmentedCache.metrics: the CacheMetrics counters
    now,                    \* the clock read by time()
    last,                   \* the most recent call and its outcome
    put_order,              \* history: per segment, its keys by most recent put, oldest first
    use_order,              \* history: per segment, its keys by most recent put or returned get
    tally,                  \* history: the gets counted by outcome, the entries deleted by cause
    calls,                  \* history: the number of calls made
    script_pos,             \* history: how many calls of Script the run has followed, or None
    recent,                 \* history: per key the value of its latest put, None once removed;
                            \*          whether a resize has changed the number of segments
    locks,                  \* SegmentedCache.locks: one Lock object (its identity) per segment
    locked,                 \* the segment Lock objects that are held
    global_lock,            \* SegmentedCache.global_lock is held
    metrics_lock,           \* CacheMetrics.lock is held
    thread                  \* per thread: the call it is in, its place in it and its locals

vars == <<capacity_per_segment, eviction_policy_class, segments, eviction_policies,
          num_segments, metrics, now, last, put_order, use_order, tally, calls, script_pos,
          recent, locks, locked, global_lock, metrics_lock, thread>>

\* ------------------------------------------------------- sequences, dicts
Range(s) == {s[i] : i \in 1..Len(s)}

RECURSIVE RemoveFirst(_, _)
\* list.remove(x) on a list that holds x: drops the first occurrence
RemoveFirst(s, x) ==
    IF s = <<>> THEN <<>>
    ELSE IF Head(s) = x THEN Tail(s)
    ELSE <<Head(s)>> \o RemoveFirst(Tail(s), x)

Front(s) == SubSeq(s, 1, Len(s) - 1)

DictDel(d, k) == [x \in (DOMAIN d) \ {k} |-> d[x]]
DictSet(d, k, v) == [x \in (DOMAIN d) \cup {k} |-> IF x = k THEN v ELSE d[x]]
EmptyDict == [x \in {} |-> 0]

\* all the sequences that list the elements of the set S once each: the
\* orders in which a dict may hand out the keys S
Orderings(S) == {s \in [1..Cardinality(S) -> S] : Range(s) = S}

\* ------------------------------------------------- FIFOEvictionPolicy
FIFO_init == [queue |-> <<>>]

FIFO_add(p, key) == [p EXCEPT !.queue = Append(@, key)]

FIFO_remove(p, key) ==
    IF key \in Range(p.queue)
    THEN [p |-> [p EXCEPT !.queue = RemoveFirst(@, key)], raised |-> None]
    ELSE [p |-> p, raised |-> Some("ValueError")]

\* mutant: pop() in place of pop(0)
FIFO_evict_newest(p) ==
    IF p.queue = <<>>
    THEN {[p |-> p, key |-> None, raised |-> Some("IndexError")]}
    ELSE {[p |-> [p EXCEPT !.queue = Front(@)],
           key |-> Some(p.queue[Len(p.queue)]), raised |-> None]}

FIFO_evict(p) ==
    IF p.queue = <<>>
    THEN {[p |-> p, key |-> None, raised |-> Some("IndexError")]}
    ELSE {[p |-> [p EXCEPT !.queue = Tail(@)], key |-> Some(Head(p.queue)), raised |-> None]}

\* -------------------------------------------------- LRUEvictionPolicy
LRU_init == [order |-> <<>>]

\* OrderedDict item assignment: a new key goes last, a present key keeps its place
LRU_add(p, key) ==
    IF key \in Range(p.order) THEN p ELSE [p EXCEPT !.order = Append(@, key)]

LRU_remove(p, key) ==
    IF key \in Range(p.order)
    THEN [p |-> [p EXCEPT !.order = RemoveFirst(@, key)], raised |-> None]
    ELSE [p |-> p, raised |-> None]

\* mutant: popitem(last=True) in place of popitem(last=False)
LRU_evict_newest(p) ==
    IF p.order = <<>>
    THEN {[p |-> p, key |-> None, raised |-> Some("KeyError")]}
    ELSE {[p |-> [p EXCEPT !.order = Front(@)],
           key |-> Some(p.order[Len(p.order)]), raised |-> None]}

LRU_evict(p) ==
    IF p.order = <<>>
    THEN {[p |-> p, key |-> None, raised |-> Some("KeyError")]}
    ELSE {[p |-> [p EXCEPT !.order = Tail(@)], key |-> Some(Head(p.order)), raised |-> None]}

\* ------------------------------------------------- LIFOEvictionPolicy
LIFO_init == [stack |-> <<>>]

LIFO_add(p, key) == [p EXCEPT !.stack = Append(@, key)]

LIFO_remove(p, key) ==
    IF key \in Range(p.stack)
    THEN [p |-> [p EXCEPT !.stack = RemoveFirst(@, key)], raised |-> None]
    ELSE [p |-> p, raised |-> Some("ValueError")]

\* mutant: pop(0) in place of pop()
LIFO_evict_oldest(p) ==
    IF p.stack = <<>>
    THEN {[p |-> p, key |-> None, raised |-> Some("IndexError")]}
    ELSE {[p |-> [p EXCEPT !.stack = Tail(@)], key |-> Some(Head(p.stack)), raised |-> None]}

LIFO_evict(p) ==
    IF p.stack = <<>>
    THEN {[p |-> p, key |-> None, raised |-> Some("IndexError")]}
    ELSE {[p |-> [p EXCEPT !.stack = Front(@)],
           key |-> Some(p.stack[Len(p.stack)]), raised |-> None]}

\* ------------------------------------- LFUEvictionPolicy (src/demo.py)
\* frequency_keys is a defaultdict(set): reading a missing bucket yields set()
Bucket(fk, f) == IF f \in DOMAIN fk THEN fk[f] ELSE {}

LFU_init == [key_frequency |-> EmptyDict, frequency_keys |-> EmptyDict, min_frequency |-> 0]

\* frequency_keys[freq].remove(key), then the bucket dropped when it is left
\* empty and min_frequency advanced when that bucket was the minimum
LFU_leave_bucket(p, key, freq) ==
    LET rest == Bucket(p.frequency_keys, freq) \ {key}
    IN  IF rest = {}
        THEN [p EXCEPT !.frequency_keys = DictDel(@, freq),
                       !.min_frequency = IF freq = @ THEN @ + 1 ELSE @]
        ELSE [p EXCEPT !.frequency_keys = DictSet(@, freq, rest)]

LFU_increment_frequency(p, key) ==
    LET freq == p.key_frequency[key]
        p1 == [p EXCEPT !.key_frequency = DictSet(@, key, freq + 1)]
        p2 == LFU_leave_bucket(p1, key, freq)
    IN  [p2 EXCEPT !.frequency_keys =
            DictSet(@, freq + 1, Bucket(@, freq + 1) \cup {key})]

LFU_add(p, key) ==
    IF key \notin DOMAIN p.key_frequency
    THEN [p EXCEPT !.key_frequency = DictSet(@, key, 1),
                   !.frequency_keys = DictSet(@, 1, Bucket(@, 1) \cup {key}),
                   !.min_frequency = 1]
    ELSE LFU_increment_frequency(p, key)

LFU_remove(p, key) ==
    IF key \in DOMAIN p.key_frequency
    THEN LET p1 == LFU_leave_bucket(p, key, p.key_frequency[key])
         IN  [p |-> [p1 EXCEPT !.key_frequency = DictDel(@, key)], raised |-> None]
    ELSE [p |-> p, raised |-> None]

\* next(iter(bucket)) takes whichever element the set yields first: any of them
LFU_evict(p) ==
    IF DOMAIN p.key_frequency = {}
    THEN {[p |-> p, key |-> None, raised |-> Some("ValueError")]}
    ELSE IF Bucket(p.frequency_keys, p.min_frequency) = {}
    THEN {[p |-> [p EXCEPT !.frequency_keys = DictSet(@, p.min_frequency, {})],
           key |-> None, raised |-> Some("StopIteration")]}
    ELSE {[p |-> LFU_remove(p, k).p, key |-> Some(k), raised |-> None] :
             k \in Bucket(p.frequency_keys, p.min_frequency)}

\* ------------------------------------ EvictionPolicy: dynamic dispatch
Policy_init(cls) ==
    CASE cls = "FIFO" -> FIFO_init
      [] cls = "LRU"  -> LRU_init
      [] cls = "LIFO" -> LIFO_init
      [] cls = "LFU"  -> LFU_init

Policy_add(cls, p, key) ==
    CASE cls = "FIFO" -> FIFO_add(p, key)
      [] cls = "LRU"  -> LRU_add(p, key)
      [] cls = "LIFO" -> LIFO_add(p, key)
      [] cls = "LFU"  -> LFU_add(p, key)

Policy_remove(cls, p, key) ==
    CASE cls = "FIFO" -> FIFO_remove(p, key)
      [] cls = "LRU"  -> LRU_remove(p, key)
      [] cls = "LIFO" -> LIFO_remove(p, key)
      [] cls = "LFU"  -> LFU_remove(p, key)

Policy_evict(cls, p) ==
    CASE cls = "FIFO" -> FIFO_evict(p)
      [] cls = "LRU"  -> LRU_evict(p)
      [] cls = "LIFO" -> LIFO_evict(p)
      [] cls = "LFU"  -> LFU_evict(p)

\* ------------------------------------------------------- CacheMetrics
CacheMetrics_init ==
    [hits |-> 0, misses |-> 0, total_requests |-> 0, evictions |-> 0, expirations |-> 0]

record_hit(m) == [m EXCEPT !.hits = @ + 1, !.total_requests = @ + 1]

\* mutant: the miss counted, the request not
record_miss_uncounted(m) == [m EXCEPT !.misses = @ + 1]

record_miss(m) == [m EXCEPT !.misses = @ + 1, !.total_requests = @ + 1]

record_eviction(m) == [m EXCEPT !.evictions = @ + 1]

record_expiration(m) == [m EXCEPT !.expirations = @ + 1]

\* ----------------------------------------------------- SegmentedCache
CacheItem(value, expiry) == [value |-> value, expiry |-> expiry]

\* hash() of a small non-negative int is the int itself
hash(key) == key

\* mutant: every key routed to the first segment
_get_segment_first(key, n) == 0

\* 0-based, as in the source; the sequences here are 1-based, hence Seg
_get_segment(key, n) == hash(key) % n

Seg(key, n) == _get_segment(key, n) + 1

\* mutant: item.expiry < t in place of item.expiry <= t
Expired_late(item, t) == item.expiry # None /\ item.expiry[1] < t

\* item.expiry is not None and item.expiry <= t
Expired(item, t) == item.expiry # None /\ item.expiry[1] <= t

ExpiredKeys(segment, t) == {k \in DOMAIN segment : Expired(segment[k], t)}

\* The operators below take and return a record c of the objects a call
\* works on: c.segments, c.eviction_policies, c.metrics, and c.gone, which
\* counts the entries the call has deleted from a map, by cause.
NoneGone == [expired |-> 0, evicted |-> 0]

RECURSIVE _remove_expired_loop(_, _, _, _)
\* the for loop of _remove_expired_items over the list expired_keys
_remove_expired_loop(cls, c, i, expired_keys) ==
    IF expired_keys = <<>> THEN [c |-> c, raised |-> None]
    ELSE LET key == Head(expired_keys)
             c1 == [c EXCEPT !.segments[i] = DictDel(@, key), !.gone.expired = @ + 1]
             r == Policy_remove(cls, c1.eviction_policies[i], key)
         IN  IF r.raised # None THEN [c |-> c1, raised |-> r.raised]
             ELSE _remove_expired_loop(cls,
                      [c1 EXCEPT !.eviction_policies[i] = r.p,
                                 !.metrics = record_expiration(@)],
                      i, Tail(expired_keys))

\* expired_keys lists the keys expired at current_time in the dict's order
_remove_expired_items(cls, c, i, current_time, expired_keys) ==
    _remove_expired_loop(cls, c, i, expired_keys)

\* the outcomes of _evict_item: one per key the policy may hand out
_evict_item(cls, c, i) ==
    { IF e.raised # None
      THEN [c |-> [c EXCEPT !.eviction_policies[i] = e.p], raised |-> e.raised, evicted |-> None]
      ELSE IF e.key[1] \notin DOMAIN c.segments[i]
      THEN [c |-> [c EXCEPT !.eviction_policies[i] = e.p],
            raised |-> Some("KeyError"), evicted |-> None]
      ELSE [c |-> [c EXCEPT !.eviction_policies[i] = e.p,
                            !.segments[i] = DictDel(@, e.key[1]),
                            !.gone.evicted = @ + 1,
                            !.metrics = record_eviction(@)],
            raised |-> None, evicted |-> e.key]
      : e \in Policy_evict(cls, c.eviction_policies[i]) }

\* mutant: > in place of >=
at_capacity_late(segment, capacity) == Cardinality(DOMAIN segment) > capacity

\* len(segment) >= self.capacity_per_segment
at_capacity(segment, capacity) == Cardinality(DOMAIN segment) >= capacity

\* mutant: the entry of a key already in the map is kept (dict.setdefault)
put_store_keeps(cls, c, i, key, value, ttl, t) ==
    LET expiry == IF ttl # None THEN Some(t + ttl[1]) ELSE None
    IN  [c EXCEPT !.segments[i] = IF key \in DOMAIN @ THEN @
                                  ELSE DictSet(@, key, CacheItem(value, expiry)),
                  !.eviction_policies[i] = Policy_add(cls, @, key)]

\* lines 56-58 of put: the entry stored, the key added to the policy
put_store(cls, c, i, key, value, ttl, t) ==
    LET expiry == IF ttl # None THEN Some(t + ttl[1]) ELSE None
    IN  [c EXCEPT !.segments[i] = DictSet(@, key, CacheItem(value, expiry)),
                  !.eviction_policies[i] = Policy_add(cls, @, key)]

\* put: t1 is the clock read by _remove_expired_items, t2 the one read for expiry
put_call(cls, capacity, c, i, key, value, ttl, t1, t2, expired_keys) ==
    LET r1 == _remove_expired_items(cls, c, i, t1, expired_keys)
        c1 == r1.c
    IN  IF r1.raised # None THEN {[c |-> c1, raised |-> r1.raised, evicted |-> None]}
        ELSE IF key \in DOMAIN c1.segments[i]
        THEN LET r2 == Policy_remove(cls, c1.eviction_policies[i], key)
             IN  IF r2.raised # None
                 THEN {[c |-> c1, raised |-> r2.raised, evicted |-> None]}
                 ELSE {[c |-> put_store(cls, [c1 EXCEPT !.eviction_policies[i] = r2.p],
                                        i, key, value, ttl, t2),
                        raised |-> None, evicted |-> None]}
        ELSE IF at_capacity(c1.segments[i], capacity)
        THEN { IF e.raised # None THEN e
               ELSE [c |-> put_store(cls, e.c, i, key, value, ttl, t2),
                     raised |-> None, evicted |-> e.evicted]
               : e \in _evict_item(cls, c1, i) }
        ELSE {[c |-> put_store(cls, c1, i, key, value, ttl, t2),
               raised |-> None, evicted |-> None]}

\* get: t1 is the clock read by _remove_expired_items, t2 the one read at line 69
get_call(cls, c, i, key, t1, t2, expired_keys) ==
    LET r1 == _remove_expired_items(cls, c, i, t1, expired_keys)
        c1 == r1.c
    IN  IF r1.raised # None THEN [c |-> c1, raised |-> r1.raised, value |-> None]
        ELSE IF key \notin DOMAIN c1.segments[i]
        THEN [c |-> [c1 EXCEPT !.metrics = record_miss(@)],
              raised |-> Some("KeyError"), value |-> None]
        ELSE LET item == c1.segments[i][key]
                 r2 == Policy_remove(cls, c1.eviction_policies[i], key)
             IN  IF Expired(item, t2)
                 THEN LET c2 == [c1 EXCEPT !.segments[i] = DictDel(@, key),
                                           !.gone.expired = @ + 1]
                      IN  IF r2.raised # None
                          THEN [c |-> c2, raised |-> r2.raised, value |-> None]
                          ELSE [c |-> [c2 EXCEPT !.eviction_policies[i] = r2.p,
                                                 !.metrics = record_miss(record_expiration(@))],
                                raised |-> Some("KeyError"), value |-> None]
                 ELSE IF r2.raised # None
                 THEN [c |-> c1, raised |-> r2.raised, value |-> None]
                 ELSE [c |-> [c1 EXCEPT !.eviction_policies[i] = Policy_add(cls, r2.p, key),
                                        !.metrics = record_hit(@)],
                       raised |-> None, value |-> Some(item.value)]

\* mutant: remove deletes nothing
remove_call_keeps(cls, c, i, key) == [c |-> c, raised |-> None]

\* mutant: the key deleted from the map and left in the policy
remove_call_forgets(cls, c, i, key) ==
    IF key \in DOMAIN c.segments[i]
    THEN [c |-> [c EXCEPT !.segments[i] = DictDel(@, key)], raised |-> None]
    ELSE [c |-> c, raised |-> None]

remove_call(cls, c, i, key) ==
    IF key \in DOMAIN c.segments[i]
    THEN LET c1 == [c EXCEPT !.segments[i] = DictDel(@, key)]
             r == Policy_remove(cls, c1.eviction_policies[i], key)
         IN  IF r.raised # None THEN [c |-> c1, raised |-> r.raised]
             ELSE [c |-> [c1 EXCEPT !.eviction_policies[i] = r.p], raised |-> None]
    ELSE [c |-> c, raised |-> None]

\* mutant: the list is extended and never sliced
Resized_never_sliced(s, n, x) ==
    [j \in 1..(IF n > Len(s) THEN n ELSE Len(s)) |-> IF j <= Len(s) THEN s[j] ELSE x]

\* the sequence s cut or padded with x to length n (list slicing, list.extend)
Resized(s, n, x) == [j \in 1..n |-> IF j <= Len(s) THEN s[j] ELSE x]

\* ------------------------------------------------------ locks, threads
\* A thread that is in no call.  In a call: op and key (or n) are the call,
\* pc the statement the thread is at, segment_index, lock, acquired_locks and
\* current_num_segments the locals of that name, released the number of
\* acquired_locks the finally clause has released, raised the exception the
\* thread's call ended with.
NoCall ==
    [pc |-> "idle", op |-> None, key |-> None, n |-> None, segment_index |-> None,
     lock |-> None, acquired_locks |-> <<>>, released |-> 0,
     current_num_segments |-> None, raised |-> None]

\* the Lock objects some thread has a reference to
Referenced ==
    UNION {Range(thread[t].acquired_locks) \cup Range(thread[t].lock) : t \in Threads}

RECURSIVE NewLocks(_, _)
\* k Lock objects just made: none of them is an object in use
NewLocks(k, used) ==
    IF k <= 0 THEN <<>>
    ELSE LET id == CHOOSE i \in 1..(Cardinality(used) + 1) :
                       i \notin used /\ \A j \in 1..(i - 1) : j \in used
         IN  <<id>> \o NewLocks(k - 1, used \cup {id})

\* self.locks after lines 119 and 123: extended with new Lock objects, or sliced
ResizedLocks(n) ==
    IF n > Len(locks)
    THEN locks \o NewLocks(n - Len(locks), Range(locks) \cup locked \cup Referenced)
    ELSE SubSeq(locks, 1, n)

\* ------------------------------------------------------------ history
\* the sequence s without the keys outside S
Kept(s, S) == SelectSeq(s, LAMBDA k : k \in S)

\* the order s of segment i after a call: keys no longer in the map dropped,
\* and key moved to the end when the call counts as a use of it
OrderAfter(s, segs, i, key, used) ==
    [j \in 1..Len(segs) |->
        IF j > Len(s) THEN <<>>
        ELSE IF j = i /\ used THEN Append(Kept(s[j], (DOMAIN segs[j]) \ {key}), key)
        ELSE Kept(s[j], DOMAIN segs[j])]

\* The calls of the worked examples, on a cache of capacity 2 with one
\* segment, with a = 1, b = 2, c = 3 and every put without ttl.
Script(cls) ==
    CASE cls = "FIFO" -> <<[op |-> "put", key |-> 1], [op |-> "put", key |-> 2],
                           [op |-> "put", key |-> 3], [op |-> "get", key |-> 1],
                           [op |-> "get", key |-> 2], [op |-> "get", key |-> 3]>>
      [] cls = "LRU"  -> <<[op |-> "put", key |-> 1], [op |-> "put", key |-> 2],
                           [op |-> "get", key |-> 1], [op |-> "put", key |-> 3],
                           [op |-> "get", key |-> 1], [op |-> "get", key |-> 3],
                           [op |-> "get", key |-> 2]>>
      [] cls = "LIFO" -> <<[op |-> "put", key |-> 1], [op |-> "put", key |-> 2],
                           [op |-> "put", key |-> 3], [op |-> "get", key |-> 1],
                           [op |-> "get", key |-> 3]>>
      [] cls = "LFU"  -> <<[op |-> "put", key |-> 1], [op |-> "put", key |-> 2],
                           [op |-> "get", key |-> 1], [op |-> "get", key |-> 1],
                           [op |-> "put", key |-> 3], [op |-> "get", key |-> 1],
                           [op |-> "get", key |-> 3]>>

\* script_pos after the call op(key): one further while the calls follow Script
ScriptAfter(op, key, ttl) ==
    IF /\ script_pos # None
       /\ script_pos[1] < Len(Script(eviction_policy_class))
       /\ Script(eviction_policy_class)[script_pos[1] + 1] = [op |-> op, key |-> key]
       /\ ttl = None
    THEN Some(script_pos[1] + 1)
    ELSE None

\* A call and its outcome: value is the value put or the value get returned,
\* raised the exception the call ended with, evicted the key put evicted,
\* deadline the time at which the ttl given to put elapses.
Call(op, key, value, raised, evicted, deadline) ==
    [op |-> op, key |-> key, value |-> value, raised |-> raised, evicted |-> evicted,
     deadline |-> deadline]

Objects == [segments |-> segments, eviction_policies |-> eviction_policies,
            metrics |-> metrics, gone |-> NoneGone]

\* a call is made while the run is within MaxCalls, or when it is the next
\* call of Script
Counted(pos) == calls < MaxCalls \/ pos # None

\* -------------------------------------------------------------- actions
Init ==
    /\ capacity_per_segment \in 0..MaxCapacity
    /\ eviction_policy_class \in PolicyClasses
    /\ num_segments \in 1..MaxSegments
    /\ segments = [j \in 1..num_segments |-> EmptyDict]
    /\ eviction_policies = [j \in 1..num_segments |-> Policy_init(eviction_policy_class)]
    /\ metrics = CacheMetrics_init
    /\ now = 0
    /\ last = Call("init", None, None, None, None, None)
    /\ put_order = [j \in 1..num_segments |-> <<>>]
    /\ use_order = [j \in 1..num_segments |-> <<>>]
    /\ calls = 0
    /\ tally = [returned |-> 0, failed |-> 0, evicted |-> 0, expired |-> 0]
    /\ script_pos = IF capacity_per_segment = 2 /\ num_segments = 1 THEN Some(0) ELSE None
    /\ recent = [value |-> [k \in Keys |-> None], resized |-> FALSE]
    /\ locks = [j \in 1..num_segments |-> j]
    /\ locked = {}
    /\ global_lock = FALSE
    /\ metrics_lock = FALSE
    /\ thread = [t \in Threads |-> NoCall]

put(key, value, ttl) ==
    /\ Counted(ScriptAfter("put", key, ttl))
    /\ \E t2 \in now..(IF now < MaxTime THEN now + 1 ELSE now) :
       \E expired_keys \in Orderings(ExpiredKeys(segments[Seg(key, num_segments)], now)) :
       \E r \in put_call(eviction_policy_class, capacity_per_segment, Objects,
                         Seg(key, num_segments), key, value, ttl, now, t2, expired_keys) :
           /\ segments' = r.c.segments
           /\ eviction_policies' = r.c.eviction_policies
           /\ metrics' = r.c.metrics
           /\ now' = t2
           /\ last' = Call("put", Some(key), Some(value), r.raised, r.evicted,
                            IF ttl = None THEN None ELSE Some(t2 + ttl[1]))
           /\ put_order' = OrderAfter(put_order, r.c.segments, Seg(key, num_segments),
                                      key, r.raised = None)
           /\ use_order' = OrderAfter(use_order, r.c.segments, Seg(key, num_segments),
                                      key, r.raised = None)
           /\ tally' = [tally EXCEPT !.evicted = @ + r.c.gone.evicted,
                                     !.expired = @ + r.c.gone.expired]
           /\ recent' = IF r.raised = None THEN [recent EXCEPT !.value[key] = Some(value)]
                         ELSE recent
    /\ calls' = calls + 1
    /\ script_pos' = ScriptAfter("put", key, ttl)
    /\ UNCHANGED <<capacity_per_segment, eviction_policy_class, num_segments>>
    /\ UNCHANGED <<locks, locked, global_lock, metrics_lock, thread>>

get(key) ==
    /\ Counted(ScriptAfter("get", key, None))
    /\ \E t2 \in now..(IF now < MaxTime THEN now + 1 ELSE now) :
       \E expired_keys \in Orderings(ExpiredKeys(segments[Seg(key, num_segments)], now)) :
       LET r == get_call(eviction_policy_class, Objects, Seg(key, num_segments),
                         key, now, t2, expired_keys)
       IN  /\ segments' = r.c.segments
           /\ eviction_policies' = r.c.eviction_policies
           /\ metrics' = r.c.metrics
           /\ now' = t2
           /\ last' = Call("get", Some(key), r.value, r.raised, None, None)
           /\ put_order' = OrderAfter(put_order, r.c.segments, Seg(key, num_segments),
                                      key, FALSE)
           /\ use_order' = OrderAfter(use_order, r.c.segments, Seg(key, num_segments),
                                      key, r.raised = None)
           /\ tally' = [tally EXCEPT !.returned = IF r.raised = None THEN @ + 1 ELSE @,
                                     !.failed = IF r.raised = None THEN @ ELSE @ + 1,
                                     !.expired = @ + r.c.gone.expired]
    /\ calls' = calls + 1
    /\ script_pos' = ScriptAfter("get", key, None)
    /\ UNCHANGED <<capacity_per_segment, eviction_policy_class, num_segments, recent>>
    /\ UNCHANGED <<locks, locked, global_lock, metrics_lock, thread>>

remove(key) ==
    /\ Counted(None)
    /\ LET r == remove_call(eviction_policy_class, Objects, Seg(key, num_segments), key)
       IN  /\ segments' = r.c.segments
           /\ eviction_policies' = r.c.eviction_policies
           /\ last' = Call("remove", Some(key), None, r.raised, None, None)
           /\ put_order' = OrderAfter(put_order, r.c.segments, Seg(key, num_segments),
                                      key, FALSE)
           /\ use_order' = OrderAfter(use_order, r.c.segments, Seg(key, num_segments),
                                      key, FALSE)
    /\ recent' = [recent EXCEPT !.value[key] = None]
    /\ calls' = calls + 1
    /\ script_pos' = None
    /\ UNCHANGED <<capacity_per_segment, eviction_policy_class, num_segments,
                   metrics, now, tally>>
    /\ UNCHANGED <<locks, locked, global_lock, metrics_lock, thread>>

resize_segments(new_num_segments) ==
    /\ Counted(None)
    /\ IF new_num_segments <= 0
       THEN /\ last' = Call("resize_segments", None, None, Some("ValueError"), None, None)
            /\ UNCHANGED <<segments, eviction_policies, locks, num_segments,
                           put_order, use_order, recent>>
       ELSE /\ segments' = Resized(segments, new_num_segments, EmptyDict)
            /\ eviction_policies' = Resized(eviction_policies, new_num_segments,
                                            Policy_init(eviction_policy_class))
            /\ locks' = ResizedLocks(new_num_segments)
            /\ num_segments' = new_num_segments
            /\ last' = Call("resize_segments", None, None, None, None, None)
            /\ put_order' = Resized(put_order, new_num_segments, <<>>)
            /\ use_order' = Resized(use_order, new_num_segments, <<>>)
            /\ recent' = [recent EXCEPT
                              !.resized = @ \/ new_num_segments # num_segments]
    /\ calls' = calls + 1
    /\ script_pos' = None
    /\ UNCHANGED <<capacity_per_segment, eviction_policy_class, metrics, now, tally>>
    /\ UNCHANGED <<locked, global_lock, metrics_lock, thread>>

\* time passes between two calls
Tick ==
    /\ now < MaxTime
    /\ now' = now + 1
    /\ UNCHANGED <<capacity_per_segment, eviction_policy_class, segments,
                   eviction_policies, num_segments, metrics, last, put_order,
                   use_order, tally, calls, script_pos, recent>>
    /\ UNCHANGED <<locks, locked, global_lock, metrics_lock, thread>>

Next ==
    \/ \E key \in Keys, value \in Values, ttl \in Ttls : put(key, value, ttl)
    \/ \E key \in Keys : get(key)
    \/ \E key \in Keys : remove(key)
    \/ \E new_num_segments \in 0..MaxSegments : resize_segments(new_num_segments)
    \/ Tick

Spec == Init /\ [][Next]_vars

\* ------------------------------------------------------------ threads
\* The calls of several threads on one cache, a step per statement that
\* reads or writes what the threads share: the segment index computed, the
\* Lock object looked up, the lock acquired, the locked body run and the
\* lock released; for resize_segments each lock acquired, the lists
\* changed, num_segments set, each lock released.  put, get and remove
\* start with the same two statements, so which of the three a thread is in
\* is chosen where they part, at the locked body, as are the value and the
\* ttl of a put.  The clock stands still and the history variables keep
\* their initial values.
history == <<capacity_per_segment, eviction_policy_class, now, last, put_order,
             use_order, tally, calls, script_pos, recent>>

\* thread t has left its call, with the exception raised or None
Ended(t, raised) == [NoCall EXCEPT !.pc = "done", !.raised = raised]

\* lines 48, 61, 82: segment_index = self._get_segment(key)
t_segment_index(t, key) ==
    /\ thread[t].pc = "idle"
    /\ thread' = [thread EXCEPT ![t] =
                     [NoCall EXCEPT !.pc = "lock", !.op = Some("put, get or remove"),
                         !.key = Some(key),
                         !.segment_index = Some(_get_segment(key, num_segments))]]
    /\ UNCHANGED <<segments, eviction_policies, num_segments, metrics, locks, locked,
                   global_lock, metrics_lock>>
    /\ UNCHANGED history

\* lines 49, 62, 83: self.locks[segment_index] looked up
t_lock(t) ==
    /\ thread[t].pc = "lock"
    /\ thread' = [thread EXCEPT ![t] =
                     IF thread[t].segment_index[1] + 1 > Len(locks)
                     THEN Ended(t, Some("IndexError"))
                     ELSE [@ EXCEPT !.pc = "acquire",
                                    !.lock = Some(locks[thread[t].segment_index[1] + 1])]]
    /\ UNCHANGED <<segments, eviction_policies, num_segments, metrics, locks, locked,
                   global_lock, metrics_lock>>
    /\ UNCHANGED history

\* lines 49, 62, 83: the with statement acquires the Lock object
t_acquire(t) ==
    /\ thread[t].pc = "acquire"
    /\ thread[t].lock[1] \notin locked
    /\ locked' = locked \cup {thread[t].lock[1]}
    /\ thread' = [thread EXCEPT ![t].pc = "body"]
    /\ UNCHANGED <<segments, eviction_policies, num_segments, metrics, locks,
                   global_lock, metrics_lock>>
    /\ UNCHANGED history

\* mutant: the lock is kept
Released_never(held, lock) == held

\* the lock given back when a with statement or the finally clause ends
Released(held, lock) == held \ {lock}

\* the outcomes [c, raised] of the locked body of thread t's call op on the
\* segment at segment_index
Body(t, op, value, ttl, expired_keys) ==
    LET i == thread[t].segment_index[1] + 1
        key == thread[t].key[1]
    IN  IF i > Len(segments) THEN {[c |-> Objects, raised |-> Some("IndexError")]}
        ELSE CASE op = "put" ->
                    {[c |-> r.c, raised |-> r.raised] :
                        r \in put_call(eviction_policy_class, capacity_per_segment, Objects,
                                       i, key, value, ttl, now, now, expired_keys)}
               [] op = "get" ->
                    LET r == get_call(eviction_policy_class, Objects, i, key, now, now,
                                      expired_keys)
                    IN  {[c |-> r.c, raised |-> r.raised]}
               [] op = "remove" ->
                    {remove_call(eviction_policy_class, Objects, i, key)}

\* lines 50-58, 63-79, 84-86: the locked body, then the lock released; a
\* body that records a metric needs CacheMetrics.lock
t_body(t) ==
    /\ thread[t].pc = "body"
    /\ \E op \in {"put", "get", "remove"}, value \in {1}, ttl \in {None} :
       \E expired_keys \in
              Orderings(IF thread[t].segment_index[1] + 1 > Len(segments) THEN {}
                        ELSE ExpiredKeys(segments[thread[t].segment_index[1] + 1], now)) :
       \E r \in Body(t, op, value, ttl, expired_keys) :
           /\ r.c.metrics # metrics => ~metrics_lock
           /\ segments' = r.c.segments
           /\ eviction_policies' = r.c.eviction_policies
           /\ metrics' = r.c.metrics
           /\ thread' = [thread EXCEPT ![t] = Ended(t, r.raised)]
    /\ locked' = Released(locked, thread[t].lock[1])
    /\ UNCHANGED <<num_segments, locks, global_lock, metrics_lock>>
    /\ UNCHANGED history

\* get_metrics called: cache_metrics.py line 31 is next
t_get_metrics(t) ==
    /\ thread[t].pc = "idle"
    /\ thread' = [thread EXCEPT ![t] = [NoCall EXCEPT !.pc = "metrics",
                                                      !.op = Some("get_metrics")]]
    /\ UNCHANGED <<segments, eviction_policies, num_segments, metrics, locks, locked,
                   global_lock, metrics_lock>>
    /\ UNCHANGED history

\* cache_metrics.py line 31: with self.lock
t_metrics_acquire(t) ==
    /\ thread[t].pc = "metrics"
    /\ ~metrics_lock
    /\ metrics_lock' = TRUE
    /\ thread' = [thread EXCEPT ![t].pc = "in_metrics"]
    /\ UNCHANGED <<segments, eviction_policies, num_segments, metrics, locks, locked,
                   global_lock>>
    /\ UNCHANGED history

\* cache_metrics.py lines 32-40: the dict built and returned, the lock released
t_metrics_release(t) ==
    /\ thread[t].pc = "in_metrics"
    /\ metrics_lock' = FALSE
    /\ thread' = [thread EXCEPT ![t] = Ended(t, None)]
    /\ UNCHANGED <<segments, eviction_policies, num_segments, metrics, locks, locked,
                   global_lock>>
    /\ UNCHANGED history

\* lines 104-106: resize_segments called
r_call(t, new_num_segments) ==
    /\ thread[t].pc = "idle"
    /\ thread' = [thread EXCEPT ![t] =
                     IF new_num_segments <= 0 THEN Ended(t, Some("ValueError"))
                     ELSE [NoCall EXCEPT !.pc = "global", !.op = Some("resize_segments"),
                                         !.n = Some(new_num_segments)]]
    /\ UNCHANGED <<segments, eviction_policies, num_segments, metrics, locks, locked,
                   global_lock, metrics_lock>>
    /\ UNCHANGED history

\* lines 109-110: with self.global_lock, current_num_segments read
r_global(t) ==
    /\ thread[t].pc = "global"
    /\ ~global_lock
    /\ global_lock' = TRUE
    /\ thread' = [thread EXCEPT ![t].pc = "acquire_all",
                                ![t].current_num_segments = Some(num_segments)]
    /\ UNCHANGED <<segments, eviction_policies, num_segments, metrics, locks, locked,
                   metrics_lock>>
    /\ UNCHANGED history

\* lines 111-113: one turn of the loop over self.locks
r_acquire(t) ==
    /\ thread[t].pc = "acquire_all"
    /\ LET lock == locks[Len(thread[t].acquired_locks) + 1]
       IN  /\ lock \notin locked
           /\ locked' = locked \cup {lock}
           /\ thread' = [thread EXCEPT
                  ![t].acquired_locks = Append(@, lock),
                  ![t].pc = IF Len(thread[t].acquired_locks) + 1 = Len(locks)
                            THEN "lists" ELSE "acquire_all"]
    /\ UNCHANGED <<segments, eviction_policies, num_segments, metrics, locks,
                   global_lock, metrics_lock>>
    /\ UNCHANGED history

\* lines 116-123: the three lists extended or sliced
r_lists(t) ==
    /\ thread[t].pc = "lists"
    /\ segments' = Resized(segments, thread[t].n[1], EmptyDict)
    /\ eviction_policies' = Resized(eviction_policies, thread[t].n[1],
                                    Policy_init(eviction_policy_class))
    /\ locks' = ResizedLocks(thread[t].n[1])
    /\ thread' = [thread EXCEPT ![t].pc = "count"]
    /\ UNCHANGED <<num_segments, metrics, locked, global_lock, metrics_lock>>
    /\ UNCHANGED history

\* line 125: self.num_segments = new_num_segments
r_count(t) ==
    /\ thread[t].pc = "count"
    /\ num_segments' = thread[t].n[1]
    /\ thread' = [thread EXCEPT ![t].pc = "release"]
    /\ UNCHANGED <<segments, eviction_policies, metrics, locks, locked, global_lock,
                   metrics_lock>>
    /\ UNCHANGED history

\* lines 128-130: one turn of the loop of the finally clause; after the last
\* one the with statement of line 109 releases global_lock
r_release(t) ==
    /\ thread[t].pc = "release"
    /\ locked' = Released(locked, thread[t].acquired_locks[thread[t].released + 1])
    /\ IF thread[t].released + 1 = Len(thread[t].acquired_locks)
       THEN /\ thread' = [thread EXCEPT ![t] = Ended(t, None)]
            /\ global_lock' = FALSE
       ELSE /\ thread' = [thread EXCEPT ![t].released = @ + 1]
            /\ UNCHANGED global_lock
    /\ UNCHANGED <<segments, eviction_policies, num_segments, metrics, locks,
                   metrics_lock>>
    /\ UNCHANGED history

InitThreads == Init

NextThreads ==
    \/ \E t \in Workers, key \in Keys : t_segment_index(t, key)
    \/ \E t \in Workers : t_lock(t)
    \/ \E t \in Workers : t_acquire(t)
    \/ \E t \in Workers : t_body(t)
    \/ \E t \in Workers : t_get_metrics(t)
    \/ \E t \in Workers : t_metrics_acquire(t)
    \/ \E t \in Workers : t_metrics_release(t)
    \/ \E t \in Resizers, new_num_segments \in 0..MaxSegments : r_call(t, new_num_segments)
    \/ \E t \in Resizers : r_global(t)
    \/ \E t \in Resizers : r_acquire(t)
    \/ \E t \in Resizers : r_lists(t)
    \/ \E t \in Resizers : r_count(t)
    \/ \E t \in Resizers : r_release(t)

SpecThreads == InitThreads /\ [][NextThreads]_vars

\* thread t takes a step of its call
Step(t) == NextThreads /\ thread'[t] # thread[t]

\* The scheduler lets every thread run: a thread whose next statement can
\* run (it is not waiting for a lock that is held) runs it in the end.
InitFair ==
    /\ InitThreads
    /\ eviction_policy_class = "LRU"
    /\ num_segments = MaxSegments

FairThreads == InitFair /\ [][NextThreads]_vars /\ \A t \in Threads : WF_vars(Step(t))

\* ------------------------------------------------- a policy on its own
\* An eviction policy object used without a cache: eviction_policies holds
\* the one object, and any of add, remove and evict is called on it with
\* any key, tracked or not.
InitPolicy ==
    /\ Init
    /\ capacity_per_segment = MaxCapacity
    /\ num_segments = 1

policy_unchanged ==
    UNCHANGED <<capacity_per_segment, eviction_policy_class, segments, num_segments,
                metrics, now, put_order, use_order, tally, script_pos, recent,
                locks, locked, global_lock, metrics_lock, thread>>

policy_add(key) ==
    /\ calls < MaxPolicyCalls
    /\ eviction_policies' =
           [eviction_policies EXCEPT ![1] = Policy_add(eviction_policy_class, @, key)]
    /\ last' = Call("policy.add", Some(key), None, None, None, None)
    /\ calls' = calls + 1
    /\ policy_unchanged

policy_remove(key) ==
    /\ calls < MaxPolicyCalls
    /\ LET r == Policy_remove(eviction_policy_class, eviction_policies[1], key)
       IN  /\ eviction_policies' = [eviction_policies EXCEPT ![1] = r.p]
           /\ last' = Call("policy.remove", Some(key), None, r.raised, None, None)
    /\ calls' = calls + 1
    /\ policy_unchanged

policy_evict ==
    /\ calls < MaxPolicyCalls
    /\ \E e \in Policy_evict(eviction_policy_class, eviction_policies[1]) :
           /\ eviction_policies' = [eviction_policies EXCEPT ![1] = e.p]
           /\ last' = Call("policy.evict", e.key, None, e.raised, None, None)
    /\ calls' = calls + 1
    /\ policy_unchanged

NextPolicy ==
    \/ \E key \in Keys : policy_add(key)
    \/ \E key \in Keys : policy_remove(key)
    \/ policy_evict

SpecPolicy == InitPolicy /\ [][NextPolicy]_vars

\* ------------------------------------------------------------ properties
\* the step is a call op(key)
IsCall(op, key) == calls' = calls + 1 /\ last'.op = op /\ last'.key = Some(key)

\* the segment key routes to, and its index
Route(key) == Seg(key, num_segments)

Home(key) == segments[Route(key)]

\* the keys a policy object tracks
Tracked(p) ==
    CASE eviction_policy_class = "FIFO" -> Range(p.queue)
      [] eviction_policy_class = "LRU"  -> Range(p.order)
      [] eviction_policy_class = "LIFO" -> Range(p.stack)
      [] eviction_policy_class = "LFU"  -> DOMAIN p.key_frequency

\* no key is tracked twice: once in the list, or in the one bucket of its frequency
TrackedOnce(p) ==
    CASE eviction_policy_class = "FIFO" -> Len(p.queue) = Cardinality(Range(p.queue))
      [] eviction_policy_class = "LRU"  -> Len(p.order) = Cardinality(Range(p.order))
      [] eviction_policy_class = "LIFO" -> Len(p.stack) = Cardinality(Range(p.stack))
      [] eviction_policy_class = "LFU"  ->
            /\ \A k \in DOMAIN p.key_frequency :
                   k \in Bucket(p.frequency_keys, p.key_frequency[k])
            /\ \A f \in DOMAIN p.frequency_keys : \A k \in p.frequency_keys[f] :
                   k \in DOMAIN p.key_frequency /\ p.key_frequency[k] = f

\* C1: a put(k, v) that returned, followed directly by get(k) before the
\* ttl of the put has elapsed and with no resize in between: get returns v.
C1_RoundTrip ==
    [][\A k \in Keys :
          ( /\ last.op = "put" /\ last.key = Some(k) /\ last.raised = None
            /\ IsCall("get", k)
            /\ last.deadline = None \/ now' < last.deadline[1] )
          => last'.raised = None /\ last'.value = last.value]_vars

\* a get has returned the value of the put right before it, which replaced
\* another value of the key
C1_Witness ==
    /\ last.op = "get" /\ last.raised = None /\ last.value = Some(2)
    /\ metrics.hits >= 2 /\ tally.failed = 0 /\ calls = 4

\* C2: every segment's map holds at most capacity_per_segment entries.
C2_Occupancy ==
    \A j \in 1..Len(segments) : Cardinality(DOMAIN segments[j]) <= capacity_per_segment

\* a put into a full segment of two entries has evicted one and left it full
C2_Witness ==
    /\ last.op = "put" /\ last.evicted # None /\ capacity_per_segment = 2
    /\ \E j \in 1..Len(segments) : Cardinality(DOMAIN segments[j]) = 2

\* C3: between calls, each segment's policy tracks exactly the keys of the
\* segment's map, each of them once.
C3_MapPolicyAgreement ==
    /\ Len(eviction_policies) = Len(segments)
    /\ \A j \in 1..Len(segments) :
           /\ Tracked(eviction_policies[j]) = DOMAIN segments[j]
           /\ TrackedOnce(eviction_policies[j])

\* a get has deleted expired entries and left others in the cache
C3_Witness ==
    /\ last.op = "get" /\ last.raised = Some("KeyError") /\ tally.expired >= 1
    /\ \E j \in 1..Len(segments) : DOMAIN segments[j] # {}

\* C4: hits and misses count the gets that returned and the gets that
\* failed, total_requests is their sum, evictions and expirations count the
\* entries deleted by eviction and by expiry; as only get changes the two
\* counts of gets, no other call changes hits, misses or total_requests.
C4_MetricsConsistency ==
    /\ metrics.hits = tally.returned
    /\ metrics.misses = tally.failed
    /\ metrics.total_requests = metrics.hits + metrics.misses
    /\ metrics.evictions = tally.evicted
    /\ metrics.expirations = tally.expired

\* a hit, a miss, an expiration and a call other than get have all happened
C4_Witness ==
    /\ metrics.hits >= 1 /\ metrics.misses >= 1 /\ metrics.expirations >= 1
    /\ last.op \in {"put", "remove", "resize_segments"}

\* the entry was stored with a ttl and the time t has reached its expiry
Due(item, t) == item.expiry # None /\ item.expiry[1] <= t

\* C5 as stated: whichever segment holds the entry for k whose expiry the
\* time has reached, get(k) fails with KeyError, deletes the entry from that
\* segment's map and policy, and records an expiration and one miss, no hit.
C5_ExpiryOnRead_AnySegment ==
    [][\A k \in Keys : \A j \in 1..Len(segments) :
          ( /\ IsCall("get", k)
            /\ k \in DOMAIN segments[j]
            /\ Due(segments[j][k], now') )
          => /\ last'.raised = Some("KeyError")
             /\ k \notin DOMAIN segments'[j]
             /\ k \notin Tracked(eviction_policies'[j])
             /\ metrics'.expirations >= metrics.expirations + 1
             /\ metrics'.misses = metrics.misses + 1
             /\ metrics'.hits = metrics.hits]_vars

\* C5, amended: when the segment k routes to holds an entry for k whose
\* expiry the time has reached, get(k) fails with KeyError and returns no
\* value, k is gone from that segment's map and policy, one miss and no hit
\* are recorded, and one expiration for each entry deleted, all of them due.
C5_ExpiryOnRead ==
    [][\A k \in Keys :
          ( /\ IsCall("get", k)
            /\ k \in DOMAIN Home(k)
            /\ Due(Home(k)[k], now') )
          => LET deleted == (DOMAIN Home(k)) \ (DOMAIN segments'[Route(k)])
             IN  /\ last'.raised = Some("KeyError") /\ last'.value = None
                 /\ k \in deleted
                 /\ k \notin Tracked(eviction_policies'[Route(k)])
                 /\ \A x \in deleted : Due(Home(k)[x], now')
                 /\ metrics'.expirations = metrics.expirations + Cardinality(deleted)
                 /\ metrics'.misses = metrics.misses + 1
                 /\ metrics'.total_requests = metrics.total_requests + 1
                 /\ metrics'.hits = metrics.hits]_vars

\* the first get of a run has failed on the expired entry of its key: one
\* expiration, one miss, the key gone from the map
C5_Witness ==
    /\ last.op = "get" /\ last.raised = Some("KeyError")
    /\ metrics.expirations = 1 /\ metrics.misses = 1 /\ metrics.hits = 0
    /\ tally.expired = 1 /\ calls = 2
    /\ last.key[1] \notin DOMAIN Home(last.key[1])

\* ------------------------------------------------------- eviction order
\* the step is a put(key) that evicted a key
EvictingPut(key) == IsCall("put", key) /\ last'.evicted # None

\* the keys in key's segment when put finds it full: those not yet due
Candidates(key) == {x \in DOMAIN Home(key) : ~Due(Home(key)[x], now)}

\* the outcomes of get that the worked examples state
Returned == last.op = "get" /\ last.raised = None /\ last.value # None

NotFound == last.op = "get" /\ last.raised = Some("KeyError")

\* the calls so far are the first n calls of Script
At(n) == script_pos = Some(n)

\* C6: under FIFO with no get so far, a put that evicts evicts the key whose
\* most recent put is the earliest in the segment; put(a), put(b), put(c) at
\* capacity 2 evicts a, then get(a) fails and get(b), get(c) return.
C6_FIFO ==
    /\ [][\A k \in Keys :
             ( /\ eviction_policy_class = "FIFO"
               /\ tally.returned + tally.failed = 0
               /\ EvictingPut(k) )
             => last'.evicted = Some(Head(Kept(put_order[Route(k)], Candidates(k))))]_vars
    /\ [](eviction_policy_class = "FIFO" =>
             /\ At(3) => last.evicted = Some(1) /\ DOMAIN segments[1] = {2, 3}
             /\ At(4) => NotFound
             /\ At(5) => Returned
             /\ At(6) => Returned)

C6_Witness == eviction_policy_class = "FIFO" /\ At(6) /\ metrics.evictions = 1

\* C7 as stated: under FIFO, gets or no gets, a put that evicts evicts the
\* key whose most recent put is the earliest in the segment.
C7_FIFO_IgnoresReads ==
    [][\A k \in Keys :
          (eviction_policy_class = "FIFO" /\ EvictingPut(k))
          => last'.evicted = Some(Head(Kept(put_order[Route(k)], Candidates(k))))]_vars

\* C8: under LRU a put that evicts evicts the key whose most recent put or
\* returned get is the oldest in the segment; put(a), put(b), get(a), put(c)
\* at capacity 2 evicts b, then get(a), get(c) return and get(b) fails.
C8_LRU ==
    /\ [][\A k \in Keys :
             (eviction_policy_class = "LRU" /\ EvictingPut(k))
             => last'.evicted = Some(Head(Kept(use_order[Route(k)], Candidates(k))))]_vars
    /\ [](eviction_policy_class = "LRU" =>
             /\ At(4) => last.evicted = Some(2) /\ DOMAIN segments[1] = {1, 3}
             /\ At(5) => Returned
             /\ At(6) => Returned
             /\ At(7) => NotFound)

C8_Witness == eviction_policy_class = "LRU" /\ At(7) /\ metrics.evictions = 1

\* C9: under LIFO a put that evicts evicts the key most recently put or
\* returned by get in the segment; put(a), put(b), put(c) at capacity 2
\* evicts b, then get(a) and get(c) return.
C9_LIFO ==
    /\ [][\A k \in Keys :
             (eviction_policy_class = "LIFO" /\ EvictingPut(k))
             => LET order == Kept(use_order[Route(k)], Candidates(k))
                IN  last'.evicted = Some(order[Len(order)])]_vars
    /\ [](eviction_policy_class = "LIFO" =>
             /\ At(3) => last.evicted = Some(2) /\ DOMAIN segments[1] = {1, 3}
             /\ At(4) => Returned
             /\ At(5) => Returned)

C9_Witness == eviction_policy_class = "LIFO" /\ At(5) /\ metrics.evictions = 1

\* C10 as stated, on its example: under LFU at capacity 2, after put(a),
\* put(b), get(a), get(a) the frequency of a is 3 and that of b is 1, and
\* put(c) then evicts b, after which get(a) and get(c) return.
C10_LFU ==
    eviction_policy_class = "LFU" =>
        /\ At(4) => /\ eviction_policies[1].key_frequency[1] = 3
                    /\ eviction_policies[1].key_frequency[2] = 1
        /\ At(5) => last.evicted = Some(2) /\ DOMAIN segments[1] = {1, 3}
        /\ At(6) => Returned
        /\ At(7) => Returned

\* a Lock object is held by nobody and no two segments share one
FreeAndDistinct(ls) == Range(ls) \cap locked = {} /\ Cardinality(Range(ls)) = Len(ls)

\* C11: a call resize_segments(n) with n <= 0 ends with ValueError and
\* changes nothing.  With n >= 1 and no other call running it leaves exactly
\* n segments, n policies and n locks with num_segments = n: the first
\* min(old, n) segments keep their map, their policy state and their lock,
\* the segments at an index >= old have an empty map, a policy in its
\* initial state and a new lock, those at an index >= n are gone, and the
\* metrics counters are unchanged.
C11_Resize ==
    [][\A n \in 0..MaxSegments :
        resize_segments(n) =>
            IF n <= 0
            THEN /\ last'.raised = Some("ValueError")
                 /\ UNCHANGED <<segments, eviction_policies, locks, num_segments, metrics,
                                capacity_per_segment, eviction_policy_class>>
            ELSE /\ last'.raised = None
                 /\ Len(segments') = n /\ Len(eviction_policies') = n /\ Len(locks') = n
                 /\ num_segments' = n
                 /\ \A j \in 1..n :
                        IF j <= Len(segments)
                        THEN /\ segments'[j] = segments[j]
                             /\ eviction_policies'[j] = eviction_policies[j]
                             /\ locks'[j] = locks[j]
                        ELSE /\ DOMAIN segments'[j] = {}
                             /\ eviction_policies'[j] = Policy_init(eviction_policy_class)
                             /\ locks'[j] \notin Range(locks)
                 /\ FreeAndDistinct(locks')
                 /\ metrics' = metrics]_vars

\* a resize has just made two segments of one: the first holds a key stored
\* while the cache had one segment, the second is empty
C11_Witness ==
    /\ last.op = "resize_segments" /\ last.raised = None
    /\ num_segments = 2 /\ Len(segments) = 2 /\ Len(locks) = 2
    /\ 1 \in DOMAIN segments[1]
    /\ DOMAIN segments[2] = {}

\* the step is a call of resize_segments that returned
IsResize == calls' = calls + 1 /\ last'.op = "resize_segments" /\ last'.raised = None

\* C12: a resize moves no entry and every key routes to hash(k) mod the
\* number of segments in force: get(k) returns the value of the entry that
\* the segment at that index holds for k when the entry is live, and
\* otherwise fails with KeyError and counts one miss and no hit, whatever the
\* other segments hold; put(k) stores k in the segment at that index.
C12_NoRelocation ==
    [][\A k \in Keys :
        LET i == (k % num_segments) + 1
        IN  /\ IsCall("get", k) =>
                  IF k \in DOMAIN segments[i] /\ ~Due(segments[i][k], now')
                  THEN /\ last'.raised = None
                       /\ last'.value = Some(segments[i][k].value)
                  ELSE /\ last'.raised = Some("KeyError")
                       /\ last'.value = None
                       /\ metrics'.misses = metrics.misses + 1
                       /\ metrics'.hits = metrics.hits
            /\ (IsCall("put", k) /\ last'.raised = None) => k \in DOMAIN segments'[i]
            /\ IsResize =>
                  \A j \in 1..Len(segments') :
                      k \in DOMAIN segments'[j] =>
                          /\ j <= Len(segments)
                          /\ k \in DOMAIN segments[j]
                          /\ segments'[j][k] = segments[j][k]]_vars

\* get(k) has just failed while a segment that k does not route to holds a
\* live entry for k
C12_Witness ==
    /\ NotFound
    /\ \E j \in 1..Len(segments) :
          /\ j # (last.key[1] % num_segments) + 1
          /\ last.key[1] \in DOMAIN segments[j]
          /\ ~Due(segments[j][last.key[1]], now)

\* thread t holds a segment lock and is in the locked body of put, get or remove
InBody(t) == thread[t].pc = "body"

\* thread r is in resize_segments, has acquired global_lock and every Lock of
\* self.locks, and has not yet released them all
InFullStop(r) == thread[r].pc \in {"lists", "count", "release"}

\* C13: from the moment a resize has acquired global_lock and every segment
\* lock until it has released them all, no other thread is in the locked
\* body of put, get or remove on any segment, the segments made by that
\* resize included.
C13_FullStop ==
    \A r \in Resizers : InFullStop(r) => \A t \in Workers : ~InBody(t)

\* the same with the stop ending at the first release of the finally clause
C13_FullStop_UntilFirstRelease ==
    \A r \in Resizers :
        (InFullStop(r) /\ thread[r].released = 0) => \A t \in Workers : ~InBody(t)

\* C14: under any interleaving of put, get, remove and resize_segments, a
\* shrink followed by a grow included, at most one thread at a time is in
\* the locked body of put, get or remove on the segment at a given index.
C14_MutualExclusion ==
    \A t \in Workers : \A u \in Workers \ {t} :
        (InBody(t) /\ InBody(u)) => thread[t].segment_index # thread[u].segment_index

\* thread t is in a call
InCall(t) == thread[t].pc \notin {"idle", "done"}

\* thread t is at a statement that waits for a lock, and the lock is held
\* (for the locked body: the lock of the metrics, which it may need)
Waiting(t) ==
    \/ thread[t].pc = "acquire" /\ thread[t].lock[1] \in locked
    \/ thread[t].pc = "body" /\ metrics_lock
    \/ thread[t].pc = "metrics" /\ metrics_lock
    \/ thread[t].pc = "global" /\ global_lock
    \/ thread[t].pc = "acquire_all" /\ locks[Len(thread[t].acquired_locks) + 1] \in locked

\* the segment locks that the threads in a call hold
HeldLocks ==
    {thread[t].lock[1] : t \in {u \in Workers : InBody(u)}}
    \cup UNION {{thread[r].acquired_locks[j] :
                    j \in (thread[r].released + 1)..Len(thread[r].acquired_locks)} :
                r \in Resizers}

\* resize_segments holds global_lock and has the segment locks in the order
\* of self.locks; put, get and remove hold one segment lock; get_metrics
\* holds the lock of the metrics alone; no lock is held by a call that ended
LockDiscipline ==
    /\ locked = HeldLocks
    /\ global_lock = (\E r \in Resizers :
                         thread[r].pc \in {"acquire_all", "lists", "count", "release"})
    /\ metrics_lock = (\E t \in Workers : thread[t].pc = "in_metrics")
    /\ \A r \in Resizers :
          thread[r].pc = "acquire_all" =>
              thread[r].acquired_locks = SubSeq(locks, 1, Len(thread[r].acquired_locks))

\* while a call is running, some thread in a call is not waiting for a lock
NoDeadlock == (\E t \in Threads : InCall(t)) => \E t \in Threads : InCall(t) /\ ~Waiting(t)

\* C15: resize_segments takes global_lock and then the segment locks in
\* ascending index order, put, get and remove hold one segment lock and
\* inside it only the lock of the metrics; no interleaving of put, get,
\* remove, get_metrics and resize_segments deadlocks, and under a fair
\* scheduler every call returns or raises in the end, with every lock
\* released.
C15_DeadlockFree ==
    /\ [](LockDiscipline /\ NoDeadlock)
    /\ <>[](\A t \in Threads : ~InCall(t))

\* a resize waits for a segment lock that a thread in a locked body holds,
\* while another resize waits for global_lock and a thread holds the lock of
\* the metrics
C15_Witness ==
    /\ \E r \in Resizers : thread[r].pc = "acquire_all" /\ Waiting(r)
    /\ \E r \in Resizers : thread[r].pc = "global" /\ Waiting(r)
    /\ \E t \in Workers : InBody(t)
    /\ \E t \in Workers : thread[t].pc = "in_metrics"

\* C16: for FIFO, LRU and LIFO, remove(k) on a policy object that does not
\* track k does not raise and leaves the object's state unchanged.
C16_RemoveAbsent ==
    [][\A k \in Keys :
        ( /\ IsCall("policy.remove", k)
          /\ eviction_policy_class \in {"FIFO", "LRU", "LIFO"}
          /\ k \notin Tracked(eviction_policies[1]) )
        => /\ last'.raised = None
           /\ eviction_policies' = eviction_policies]_vars

\* C17: for any capacity_per_segment and any sequence of put, get, remove
\* and resize_segments calls, evict() is called only on a policy that tracks
\* a key: no put ends with an exception, and a put that evicts deletes
\* exactly one entry, one that was in the map of the key's segment.
C17_EvictNeverFails ==
    [][\A k \in Keys :
        IsCall("put", k) =>
            /\ last'.raised = None
            /\ last'.evicted # None =>
                  /\ last'.evicted[1] \in DOMAIN Home(k)
                  /\ last'.evicted[1] \notin DOMAIN segments'[Route(k)]
                  /\ tally'.evicted = tally.evicted + 1]_vars

\* C18: for an LFU policy object used on its own, after any sequence of add
\* and remove calls, whenever it tracks a key, min_frequency is the smallest
\* frequency of a tracked key and the bucket of min_frequency is not empty,
\* so evict() does not raise and hands out a tracked key of that frequency.
C18_LFU_MinFrequency ==
    eviction_policy_class = "LFU" =>
        LET p == eviction_policies[1]
            tracked == DOMAIN p.key_frequency
        IN  tracked # {} =>
                /\ \A k \in tracked : p.min_frequency <= p.key_frequency[k]
                /\ \E k \in tracked : p.min_frequency = p.key_frequency[k]
                /\ Bucket(p.frequency_keys, p.min_frequency) # {}
                /\ \A e \in LFU_evict(p) :
                      /\ e.raised = None
                      /\ e.key[1] \in tracked
                      /\ p.key_frequency[e.key[1]] = p.min_frequency

\* C19: a put, get or remove that overlaps a resize_segments call, growing
\* or shrinking, never indexes a list out of range: when it looks up its
\* lock, segment_index is an index of self.locks, and while it is in its
\* locked body segment_index is an index of self.segments,
\* self.eviction_policies and self.locks and is hash(key) mod the number of
\* segments in force.
C19_RoutingCurrent ==
    \A t \in Workers :
        /\ thread[t].pc = "lock" => thread[t].segment_index[1] < Len(locks)
        /\ InBody(t) =>
              /\ thread[t].segment_index[1] < Len(segments)
              /\ thread[t].segment_index[1] < Len(eviction_policies)
              /\ thread[t].segment_index[1] < Len(locks)
              /\ thread[t].segment_index[1] = hash(thread[t].key[1]) % num_segments

\* the segments that hold an entry for key
Holders(key) == {j \in 1..Len(segments) : key \in DOMAIN segments[j]}

\* C20 as stated: in any sequence of put, get, remove and resize_segments
\* calls of one thread, each key is stored in at most one segment, a get(k)
\* that returns returns the value of the latest put(k), and after remove(k)
\* no get(k) returns before the next put(k), whatever resizes come between.
C20_NoStaleCopies ==
    [][\A k \in Keys :
        /\ Cardinality(Holders(k)) <= 1
        /\ (IsCall("get", k) /\ last'.raised = None) => last'.value = recent.value[k]]_vars

\* C20 for the calls made while no resize has changed the number of
\* segments: each key is stored in at most one segment, the one it routes
\* to, a get(k) that returns returns the value of the latest put(k), and
\* after remove(k) no get(k) returns before the next put(k).
C20_NoStaleCopies_UntilResized ==
    [][~recent.resized =>
        \A k \in Keys :
            /\ Holders(k) \subseteq {(k % num_segments) + 1}
            /\ (IsCall("get", k) /\ last'.raised = None) =>
                    last'.value = recent.value[k]]_vars

\* no resize has changed the number of segments of a cache of two, and the
\* fourth call, get(1), has just returned 2, the value of the latest put(1)
C20_Witness ==
    /\ ~recent.resized /\ num_segments = 2
    /\ Returned /\ last.key = Some(1) /\ last.value = Some(2)
    /\ recent.value[1] = Some(2)
    /\ calls = 4

====
